---- MODULE Spec2Model ----
(***************************************************************************)
(* Model of the WhatsBox embedding example: the Host Controller of         *)
(* app.js (a Vue component talking to an iframe through postMessage) and   *)
(* the Token Exchange Service of server.js (POST /get-wa-token).           *)
(*                                                                         *)
(* JavaScript values are modelled as one-field records, so that values of  *)
(* different kinds are always comparable:                                  *)
(*   [undef |-> TRUE]   undefined        [null |-> TRUE]   null            *)
(*   [str |-> s]        a string         [bool |-> b]      a boolean       *)
(*   [obj |-> ps]       an object: the sequence of its [key, val] pairs,   *)
(*                      in insertion order                                 *)
(*   [text |-> ts]      a string holding serialized text: the sequence of  *)
(*                      its lexical tokens                                 *)
(* Date values (timestamps) are left out of log entries; they play no role *)
(* in any handler's control flow.                                          *)
(***************************************************************************)
EXTENDS Integers, Sequences, FiniteSets, TLC

(***************************************************************************)
(* Bounds of the model.                                                    *)
(***************************************************************************)
\* operations started from outside (message events, user actions, token
\* requests, posts of other clients, the loss of the iframe's window)
MaxOps == 3

(***************************************************************************)
(* JavaScript values.                                                      *)
(***************************************************************************)
Undefined == [undef |-> TRUE]

JNull == [null |-> TRUE]

JStr(s) == [str |-> s]

JBool(b) == [bool |-> b]

JObj(ps) == [obj |-> ps]

JText(ts) == [text |-> ts]

P(k, v) == [key |-> k, val |-> v]

IsUndefined(v) == "undef" \in DOMAIN v

IsNull(v) == "null" \in DOMAIN v

IsObj(v) == "obj" \in DOMAIN v

IsStr(v) == "str" \in DOMAIN v

IsText(v) == "text" \in DOMAIN v

\* typeof v === 'string'
IsString(v) == IsStr(v) \/ IsText(v)

\* reading a property of null or undefined throws a TypeError
Nullish(v) == IsUndefined(v) \/ IsNull(v)

\* v.key ; the caller has excluded the nullish v
Get(v, k) ==
    IF IsObj(v) /\ \E i \in 1..Len(v.obj) : v.obj[i].key = k
    THEN v.obj[CHOOSE i \in 1..Len(v.obj) :
                 /\ v.obj[i].key = k
                 /\ \A j \in (i+1)..Len(v.obj) : v.obj[j].key # k].val
    ELSE Undefined

\* the value is truthy
Truthy(v) ==
    CASE IsStr(v) -> v.str # ""
      [] IsText(v) -> Len(v.text) > 0
      [] "bool" \in DOMAIN v -> v.bool
      [] IsObj(v) -> TRUE
      [] OTHER -> FALSE

\* a || b
OrElse(a, b) == IF Truthy(a) THEN a ELSE b

\* string conversion inside a template literal
ToStr(v) ==
    CASE IsStr(v) -> v.str
      [] IsText(v) -> "[text]"
      [] "bool" \in DOMAIN v -> IF v.bool THEN "true" ELSE "false"
      [] IsObj(v) -> "[object Object]"
      [] IsNull(v) -> "null"
      [] OTHER -> "undefined"

\* a == 'literal'
LooseEqStr(v, s) == IsStr(v) /\ v.str = s

(***************************************************************************)
(* JSON text: a sequence of tokens.                                        *)
(***************************************************************************)
Punct(c) == [t |-> "punct", v |-> c]

StrTok(s) == [t |-> "string", v |-> s]

Lit(w) == [t |-> "lit", v |-> w]

Junk(w) == [t |-> "junk", v |-> w]

Quoted(ts) == [t |-> "quoted", q |-> ts]

IsPunct(tok, c) == tok.t = "punct" /\ tok.v = c

\* obj[k] = v while JSON.parse builds an object: a repeated key keeps its
\* place and takes the later value
Put(ps, k, v) ==
    IF \E i \in 1..Len(ps) : ps[i].key = k
    THEN [i \in 1..Len(ps) |-> IF ps[i].key = k THEN P(k, v) ELSE ps[i]]
    ELSE Append(ps, P(k, v))

ParseFail == [ok |-> FALSE, val |-> Undefined, rest |-> <<>>]

RECURSIVE ParseValue(_)
RECURSIVE ParseMembers(_, _)
ParseMembers(ts, acc) ==
    IF Len(ts) < 3 \/ Head(ts).t # "string" \/ ~IsPunct(ts[2], ":")
    THEN ParseFail
    ELSE LET k == Head(ts).v
             r == ParseValue(SubSeq(ts, 3, Len(ts)))
         IN  IF ~r.ok \/ Len(r.rest) = 0 THEN ParseFail
             ELSE IF IsPunct(Head(r.rest), "}")
                  THEN [ok |-> TRUE, val |-> JObj(Put(acc, k, r.val)),
                        rest |-> Tail(r.rest)]
             ELSE IF IsPunct(Head(r.rest), ",")
                  THEN ParseMembers(Tail(r.rest), Put(acc, k, r.val))
             ELSE ParseFail

ParseValue(ts) ==
    IF Len(ts) = 0 THEN ParseFail
    ELSE LET h == Head(ts) IN
         CASE h.t = "string" -> [ok |-> TRUE, val |-> JStr(h.v), rest |-> Tail(ts)]
           [] h.t = "quoted" -> [ok |-> TRUE, val |-> JText(h.q), rest |-> Tail(ts)]
           [] h.t = "lit" ->
                [ok |-> TRUE,
                 val |-> IF h.v = "null" THEN JNull ELSE JBool(h.v = "true"),
                 rest |-> Tail(ts)]
           [] h.t = "punct" ->
                IF h.v # "{" THEN ParseFail
                ELSE IF Len(ts) >= 2 /\ IsPunct(ts[2], "}")
                     THEN [ok |-> TRUE, val |-> JObj(<<>>),
                           rest |-> SubSeq(ts, 3, Len(ts))]
                     ELSE ParseMembers(Tail(ts), <<>>)
           [] OTHER -> ParseFail

\* the characters of a JavaScript string, as tokens
Chars(s) == IF IsText(s) THEN s.text ELSE <<Junk(s.str)>>

\* JSON.parse(s): ok with the value, or the SyntaxError it throws
JSONParse(s) ==
    LET r == ParseValue(Chars(s))
    IN  IF r.ok /\ Len(r.rest) = 0
        THEN [ok |-> TRUE, val |-> r.val, message |-> ""]
        ELSE [ok |-> FALSE, val |-> Undefined, message |-> "Unexpected token"]

RECURSIVE Stringify(_)
RECURSIVE StringifyMembers(_, _)
StringifyMembers(ps, first) ==
    IF Len(ps) = 0 THEN <<>>
    ELSE IF IsUndefined(Head(ps).val) THEN StringifyMembers(Tail(ps), first)
    ELSE (IF first THEN <<>> ELSE <<Punct(",")>>)
         \o <<StrTok(Head(ps).key), Punct(":")>>
         \o Stringify(Head(ps).val)
         \o StringifyMembers(Tail(ps), FALSE)

\* JSON.stringify(v), for a v that is not undefined
Stringify(v) ==
    CASE IsStr(v) -> <<StrTok(v.str)>>
      [] IsText(v) -> <<Quoted(v.text)>>
      [] "bool" \in DOMAIN v -> <<Lit(IF v.bool THEN "true" ELSE "false")>>
      [] IsNull(v) -> <<Lit("null")>>
      [] IsObj(v) -> <<Punct("{")>> \o StringifyMembers(v.obj, TRUE) \o <<Punct("}")>>
      [] OTHER -> <<>>

(***************************************************************************)
(* Origins.  An origin string is the sequence of its pieces, cut so that   *)
(* every host name the allow-list looks for is one piece: a substring test *)
(* is a test for a contiguous run of pieces.                               *)
(***************************************************************************)
OriginQA == <<"https:", "//", "app-qa.whatsbox.io">>

OriginProd == <<"https:", "//", "app.whatsbox.io">>

OriginLocal == <<"http:", "//", "localhost:3000">>

\* an origin that merely embeds a trusted host name
OriginLookalike == <<"https:", "//", "app.whatsbox.io", ".evil.example">>

OriginEvil == <<"https:", "//", "evil.example">>

allowedOrigins == <<OriginQA, OriginProd, OriginLocal>>

\* s.split('//')[1] ; undefined (here the empty sequence of pieces is never
\* produced for the allow-list entries) when s holds no '//'
SplitSlashes1(s) ==
    IF \E i \in 1..Len(s) : s[i] = "//"
    THEN LET i == CHOOSE i \in 1..Len(s) :
                      s[i] = "//" /\ \A j \in 1..(i-1) : s[j] # "//"
             rest == SubSeq(s, i+1, Len(s))
         IN  IF \E j \in 1..Len(rest) : rest[j] = "//"
             THEN SubSeq(rest, 1, (CHOOSE j \in 1..Len(rest) :
                      rest[j] = "//" /\ \A k \in 1..(j-1) : rest[k] # "//") - 1)
             ELSE rest
    ELSE <<>>

\* s.includes(t)
Includes(s, t) ==
    \E i \in 1..(Len(s) - Len(t) + 1) : SubSeq(s, i, i + Len(t) - 1) = t

\* a check that compares the whole origin
OriginAllowed_Exact(o) ==
    \E n \in 1..Len(allowedOrigins) : o = allowedOrigins[n]

\* allowedOrigins.some(origin => event.origin.includes(origin.split('//')[1]))
OriginAllowed(o) ==
    \E n \in 1..Len(allowedOrigins) : Includes(o, SplitSlashes1(allowedOrigins[n]))

(***************************************************************************)
(* The Host Controller: the component's data() and the state of the        *)
(* iframe it drives.                                                       *)
(***************************************************************************)
VARIABLES
    iframeOrigin,       \* null, or [origin |-> o] once captured
    userCredentials,    \* the object {email, name, role}
    messages,           \* the message log
    messageIdCounter,
    showLoading,
    isAuthenticated,
    contentWindow,      \* iframe.contentWindow is available
    posted,             \* what was handed to contentWindow.postMessage
    timerFired,         \* the fallback timeout of init() has run
    last,               \* the operation of the page that ran last, and how
                        \* it ended
    nOps                \* operations started so far

hostVars == <<iframeOrigin, userCredentials, messages, messageIdCounter,
              showLoading, isAuthenticated, contentWindow, posted,
              timerFired, nOps>>

Creds(email, name, role) ==
    JObj(<<P("email", JStr(email)), P("name", JStr(name)), P("role", JStr(role))>>)

CredsInitial == Creds("", "", "User")

CredsA == Creds("a@b.com", "A", "User")

\* `this`, as one record
Host ==
    [iframeOrigin |-> iframeOrigin, userCredentials |-> userCredentials,
     messages |-> messages, messageIdCounter |-> messageIdCounter,
     showLoading |-> showLoading, isAuthenticated |-> isAuthenticated,
     contentWindow |-> contentWindow, posted |-> posted]

Commit(h) ==
    /\ iframeOrigin' = h.iframeOrigin
    /\ userCredentials' = h.userCredentials
    /\ messages' = h.messages
    /\ messageIdCounter' = h.messageIdCounter
    /\ showLoading' = h.showLoading
    /\ isAuthenticated' = h.isAuthenticated
    /\ contentWindow' = h.contentWindow
    /\ posted' = h.posted

\* the text of a log entry: a label, then serialized JSON and/or plain text
Text(label, body, detail) == [label |-> label, body |-> body, detail |-> detail]

\* a log that keeps its two newest entries
logMessage_Capped(h, text, type) ==
    LET all == Append(h.messages, [id |-> h.messageIdCounter,
                                   text |-> text, type |-> type])
    IN  [h EXCEPT !.messages = IF Len(all) > 2 THEN Tail(all) ELSE all,
                  !.messageIdCounter = @ + 1]

logMessage(h, text, type) ==
    [h EXCEPT !.messages = Append(@, [id |-> h.messageIdCounter,
                                      text |-> text, type |-> type]),
              !.messageIdCounter = @ + 1]

hideLoading(h) == [h EXCEPT !.showLoading = FALSE]

\* the src attribute of the iframe element
IframeSrc == <<"https:", "//", "app.whatsbox.io", "/embedded">>

\* new URL(u).origin
URLOrigin(u) == SubSeq(u, 1, 3)

\* const targetOrigin = this.iframeOrigin || new URL(this.iframe.src).origin
targetOrigin(h) ==
    IF IsNull(h.iframeOrigin) THEN URLOrigin(IframeSrc) ELSE h.iframeOrigin.origin

\* the second argument of postMessage, as written in the call
Wildcard == <<"*">>

\* a sendMessage that posts and keeps no record of it
sendMessage_NoLog(h, msg) ==
    IF h.contentWindow
    THEN [h EXCEPT !.posted = Append(@, [message |-> JText(Stringify(msg)),
                                         targetOrigin |-> Wildcard])]
    ELSE h

\* sendMessage(msg); targetOrigin(h) is computed and not passed on
sendMessage(h, msg) ==
    IF h.contentWindow
    THEN logMessage(
            [h EXCEPT !.posted = Append(@, [message |-> JText(Stringify(msg)),
                                            targetOrigin |-> Wildcard])],
            Text("Sent", Stringify(msg), ""), "sent")
    ELSE h

\* new Date().toISOString()
NowISO == JStr("<iso-time>")

\* a switch on msg.type || msg.status
Discriminant_TypeFirst(msg) == OrElse(Get(msg, "type"), Get(msg, "status"))

\* the value switched on: msg.status || msg.type
Discriminant(msg) == OrElse(Get(msg, "status"), Get(msg, "type"))

\* a default branch that reports the message
onUnrecognized_Logged(h, msg) ==
    logMessage(h, Text("Unknown message", <<>>, ""), "error")

\* the switch has no default branch
onUnrecognized(h, msg) == h

\* processMessage(msg): the state it leaves, or the TypeError it throws
processMessage(h, msg) ==
    IF Nullish(msg)
    THEN [h |-> h, threw |-> TRUE,
          message |-> "Cannot read properties of " \o ToStr(msg)]
    ELSE LET d == Discriminant(msg)
             h2 ==
               CASE LooseEqStr(d, "auth_request") ->
                      sendMessage(h, JObj(<<P("type", JStr("user_credentials")),
                                            P("credentials", h.userCredentials),
                                            P("timestamp", NowISO)>>))
                 [] LooseEqStr(d, "auth_success") ->
                      logMessage([h EXCEPT !.isAuthenticated = TRUE],
                                 Text("Authenticated", <<>>, ""), "received")
                 [] LooseEqStr(d, "auth_failure") ->
                      logMessage(h, Text("Auth failed", <<>>,
                                 ToStr(OrElse(Get(msg, "reason"), JStr("Unknown")))),
                                 "error")
                 [] LooseEqStr(d, "ready") -> hideLoading(h)
                 [] LooseEqStr(d, "success") ->
                      logMessage(h, Text("Success", <<>>, ""), "received")
                 [] LooseEqStr(d, "error") ->
                      logMessage(h, Text("Error", <<>>,
                                 ToStr(OrElse(Get(msg, "message"), Get(msg, "error")))),
                                 "error")
                 [] OTHER -> onUnrecognized(h, msg)
         IN  [h |-> h2, threw |-> FALSE, message |-> ""]

\* a catch block that swallows the error
onParseError_Silent(h, message) == h

\* the catch block of handleMessage
onParseError(h, message) ==
    logMessage(h, Text("Parse error", <<>>, message), "error")

\* typeof data === 'string' ? JSON.parse(data) : data
ParsedData(data) ==
    IF IsString(data) THEN JSONParse(data)
    ELSE [ok |-> TRUE, val |-> data, message |-> ""]

\* a listener that takes the origin of every message it accepts
handleMessage_LastOrigin(h, event) ==
    IF Nullish(event.data)
    THEN [h |-> h, threw |-> TRUE, dispatched |-> FALSE, atDispatch |-> h]
    ELSE
    LET h2 == IF LooseEqStr(Get(event.data, "type"), "EMBED_READY")
              THEN sendMessage(h, JObj(<<P("type", JStr("ack")),
                                P("receivedType", Get(event.data, "type"))>>))
              ELSE h
    IN  IF ~OriginAllowed(event.origin)
        THEN [h |-> h2, threw |-> FALSE, dispatched |-> FALSE, atDispatch |-> h2]
        ELSE
        LET h3 == logMessage([h2 EXCEPT !.iframeOrigin = [origin |-> event.origin]],
                             Text("Received", Stringify(event.data), ""),
                             "received")
            parsed == ParsedData(event.data)
        IN  IF ~parsed.ok
            THEN [h |-> onParseError(h3, parsed.message),
                  threw |-> FALSE, dispatched |-> FALSE, atDispatch |-> h3]
            ELSE LET r == processMessage(h3, parsed.val)
                 IN  [h |-> IF r.threw THEN onParseError(r.h, r.message) ELSE r.h,
                      threw |-> FALSE, dispatched |-> TRUE, atDispatch |-> h3]

\* a listener that checks where the message came from before anything else
handleMessage_CheckFirst(h, event) ==
    LET h1 == IF IsNull(h.iframeOrigin)
              THEN [h EXCEPT !.iframeOrigin = [origin |-> event.origin]]
              ELSE h
    IN  IF ~OriginAllowed(event.origin)
        THEN [h |-> h1, threw |-> FALSE, dispatched |-> FALSE, atDispatch |-> h1]
        ELSE
        IF Nullish(event.data)
        THEN [h |-> h1, threw |-> TRUE, dispatched |-> FALSE, atDispatch |-> h1]
        ELSE
        LET h2 == IF LooseEqStr(Get(event.data, "type"), "EMBED_READY")
                  THEN sendMessage(h1, JObj(<<P("type", JStr("ack")),
                                    P("receivedType", Get(event.data, "type"))>>))
                  ELSE h1
            h3 == logMessage(h2, Text("Received", Stringify(event.data), ""),
                             "received")
            parsed == ParsedData(event.data)
        IN  IF ~parsed.ok
            THEN [h |-> onParseError(h3, parsed.message),
                  threw |-> FALSE, dispatched |-> FALSE, atDispatch |-> h3]
            ELSE LET r == processMessage(h3, parsed.val)
                 IN  [h |-> IF r.threw THEN onParseError(r.h, r.message) ELSE r.h,
                      threw |-> FALSE, dispatched |-> TRUE, atDispatch |-> h3]

\* a listener that logs what it received before it checks where it came from
handleMessage_LogFirst(h, event) ==
    LET h1 == IF IsNull(h.iframeOrigin)
              THEN [h EXCEPT !.iframeOrigin = [origin |-> event.origin]]
              ELSE h
    IN  IF Nullish(event.data)
        THEN [h |-> h1, threw |-> TRUE, dispatched |-> FALSE, atDispatch |-> h1]
        ELSE
        LET h2 == IF LooseEqStr(Get(event.data, "type"), "EMBED_READY")
                  THEN sendMessage(h1, JObj(<<P("type", JStr("ack")),
                                    P("receivedType", Get(event.data, "type"))>>))
                  ELSE h1
            h3 == logMessage(h2, Text("Received", Stringify(event.data), ""),
                             "received")
        IN  IF ~OriginAllowed(event.origin)
            THEN [h |-> h3, threw |-> FALSE, dispatched |-> FALSE, atDispatch |-> h3]
            ELSE
            LET parsed == ParsedData(event.data)
            IN  IF ~parsed.ok
                THEN [h |-> onParseError(h3, parsed.message),
                      threw |-> FALSE, dispatched |-> FALSE, atDispatch |-> h3]
                ELSE LET r == processMessage(h3, parsed.val)
                     IN  [h |-> IF r.threw THEN onParseError(r.h, r.message) ELSE r.h,
                          threw |-> FALSE, dispatched |-> TRUE, atDispatch |-> h3]

\* handleMessage(event): the state it leaves, whether it threw to its
\* caller, whether it called processMessage, and the state at that call
handleMessage(h, event) ==
    LET h1 == IF IsNull(h.iframeOrigin)
              THEN [h EXCEPT !.iframeOrigin = [origin |-> event.origin]]
              ELSE h
    IN  IF Nullish(event.data)
        THEN [h |-> h1, threw |-> TRUE, dispatched |-> FALSE, atDispatch |-> h1]
        ELSE
        LET h2 == IF LooseEqStr(Get(event.data, "type"), "EMBED_READY")
                  THEN sendMessage(h1, JObj(<<P("type", JStr("ack")),
                                    P("receivedType", Get(event.data, "type"))>>))
                  ELSE h1
        IN  IF ~OriginAllowed(event.origin)
            THEN [h |-> h2, threw |-> FALSE, dispatched |-> FALSE, atDispatch |-> h2]
            ELSE
            LET h3 == logMessage(h2, Text("Received", Stringify(event.data), ""),
                                 "received")
                parsed == ParsedData(event.data)
            IN  IF ~parsed.ok
                THEN [h |-> onParseError(h3, parsed.message),
                      threw |-> FALSE, dispatched |-> FALSE, atDispatch |-> h3]
                ELSE LET r == processMessage(h3, parsed.val)
                     IN  [h |-> IF r.threw THEN onParseError(r.h, r.message) ELSE r.h,
                          threw |-> FALSE, dispatched |-> TRUE, atDispatch |-> h3]

\* a logout that clears the flag without waiting for the Widget
logout_Optimistic(h) ==
    [logMessage(sendMessage(h, JObj(<<P("action", JStr("logout"))>>)),
                Text("Logout request sent", <<>>, ""), "sent")
        EXCEPT !.isAuthenticated = FALSE]

logout(h) ==
    logMessage(sendMessage(h, JObj(<<P("action", JStr("logout"))>>)),
               Text("Logout request sent", <<>>, ""), "sent")

clearConsole(h) == [h EXCEPT !.messages = <<>>]

(***************************************************************************)
(* The Widget: the reference listener that runs inside the iframe.         *)
(***************************************************************************)
VARIABLES
    widget              \* the runs of postMessagesListener, oldest first

\* one run of the listener: the event data it got, the await it stands at
\* ("auth", "push") or "done", the Command it accepted ("" when none), and
\* what it posted to the parent so far
Run(data, pc, action, emitted) ==
    [data |-> data, pc |-> pc, action |-> action, emitted |-> emitted]

\* window.parent.postMessage({ type: "embed-login", ...payload }, "*")
postResult(payload) == JObj(<<P("type", JStr("embed-login"))>> \o payload)

Result(action, status) ==
    postResult(<<P("action", JStr(action)), P("status", JStr(status))>>)

ResultError(action, message) ==
    postResult(<<P("action", JStr(action)), P("status", JStr("error")),
                 P("message", JStr(message))>>)

InvalidMessage == ResultError("login", "invalid-message")

\* postMessagesListener(event) up to its first await, for event.data a string
postMessagesListener(data) ==
    LET parsed == JSONParse(data)
    IN  IF ~parsed.ok \/ Nullish(parsed.val)
        THEN Run(data, "done", "", <<InvalidMessage>>)
        ELSE
        LET action == Get(parsed.val, "action")
            d == Get(parsed.val, "data")
        IN  IF action = JStr("logout")
            THEN Run(data, "auth", "logout", <<Result("logout", "init")>>)
            ELSE IF action = JStr("login")
            THEN IF Nullish(d)
                 THEN Run(data, "done", "", <<InvalidMessage>>)
                 ELSE IF Truthy(Get(d, "token"))
                 THEN Run(data, "auth", "login", <<Result("login", "init")>>)
                 ELSE Run(data, "done", "", <<>>)
            ELSE Run(data, "done", "", <<>>)

\* how an awaited call ends
Settlements == {"resolved", "rejected"}

\* loginEmbed / logoutEmbed after await signInWithCustomToken / signOut
embedAuthSettled(run, how) ==
    IF how = "resolved"
    THEN [run EXCEPT !.emitted = Append(@, Result(run.action, "success")),
                     !.pc = "push"]
    ELSE [run EXCEPT !.emitted = Append(@, ResultError(run.action, "auth failed")),
                     !.pc = "done"]

\* loginEmbed / logoutEmbed after await router.push, still inside the try
embedPushSettled(run, how) ==
    IF how = "resolved"
    THEN [run EXCEPT !.pc = "done"]
    ELSE [run EXCEPT !.emitted = Append(@, ResultError(run.action, "navigation failed")),
                     !.pc = "done"]

(***************************************************************************)
(* The Token Exchange Service (server.js) and the HTTP exchanges with it.  *)
(***************************************************************************)
VARIABLES
    WA_API_KEY,         \* the secret, read from the environment at startup
    console,            \* what the service printed
    http                \* the POST /get-wa-token exchanges, oldest first

serverVars == <<WA_API_KEY, console, http>>

vars == <<hostVars, serverVars, widget, last>>

Keys == {"K1", "K2"}

WA_API_URL == "https://api.whatsbox.example"

\* the configuration printed at startup
StartupLog(key) ==
    <<[label |-> "Configuration:", arg |-> ""],
      [label |-> "  WA_API_URL: ", arg |-> WA_API_URL],
      [label |-> "  WA_API_KEY: ", arg |-> IF key # "" THEN "***" ELSE "(not set)"]>>

\* the error axios rejects with: its message and the config of the request
\* that failed
AxiosError(message, config) == [message |-> message, config |-> config]

\* a handler that forwards req.body as it came
UpstreamRequest_WholeBody(key, body) ==
    [url |-> <<WA_API_URL, "/auth/generate-auth-token">>,
     data |-> body,
     headers |-> <<P("x-api-key", JStr(key))>>]

\* the call axios.post(tokenEndpoint, {email, name, role}, {headers})
UpstreamRequest(key, body) ==
    [url |-> <<WA_API_URL, "/auth/generate-auth-token">>,
     data |-> JObj(<<P("email", Get(body, "email")),
                     P("name", Get(body, "name")),
                     P("role", Get(body, "role"))>>),
     headers |-> <<P("x-api-key", JStr(key))>>]

\* what the upstream authority can do with a request
UpstreamData ==
    {JObj(<<P("token", JStr("T1"))>>),
     JObj(<<P("token", JStr("T2")), P("expiresIn", JStr("3600"))>>)}

Outcomes ==
    [kind : {"ok"}, status : {200}, data : UpstreamData, message : {""}]
    \cup {[kind |-> "status", status |-> 500, data |-> Undefined,
           message |-> "Request failed with status code 500"],
          [kind |-> "unreachable", status |-> 0, data |-> Undefined,
           message |-> "connect ECONNREFUSED"],
          [kind |-> "timeout", status |-> 0, data |-> Undefined,
           message |-> "timeout exceeded"]}

\* res.json(body), res.status(n).json(body)
Response(status, body) == [status |-> status, body |-> JText(Stringify(body))]

\* a catch block that reports the failed request along with the message
FailureBody_WithConfig(error) ==
    JObj(<<P("success", JBool(FALSE)),
           P("message", JStr("Failed to fetch WA token")),
           P("error", JStr(error.message)),
           P("headers", JObj(error.config.headers))>>)

\* the catch block of the README, which leaves the detail out
FailureBody_NoDetail(error) ==
    JObj(<<P("success", JBool(FALSE)),
           P("message", JStr("Failed to fetch WA token"))>>)

\* the catch block: the body it answers with
FailureBody(error) ==
    JObj(<<P("success", JBool(FALSE)),
           P("message", JStr("Failed to fetch WA token")),
           P("error", JStr(error.message))>>)

\* console.error('Error fetching WA token:', error)
ErrorLine(error) == [label |-> "Error fetching WA token:", error |-> error]

\* the handler of POST /get-wa-token for one request and one outcome of its
\* upstream call: the response it sends and what it prints
postGetWaToken(key, body, outcome) ==
    LET request == UpstreamRequest(key, body)
    IN  IF outcome.kind = "ok"
        THEN [responses |-> <<Response(200, outcome.data)>>, printed |-> <<>>]
        ELSE LET error == AxiosError(outcome.message, request)
             IN  [responses |-> <<Response(500, FailureBody(error))>>,
                  printed |-> <<ErrorLine(error)>>]

NoOutcome == [kind |-> "none", status |-> 0, data |-> Undefined, message |-> ""]

Exchange(client, body) ==
    [client |-> client, body |-> JText(Stringify(body)), phase |-> "sent",
     upstream |-> <<>>, outcome |-> NoOutcome, responses |-> <<>>]

\* req.body, as express.json() parsed it
ReqBody(x) == JSONParse(x.body).val

\* bodies a client other than the page posts to the endpoint
ExternalBodies ==
    {JObj(<<P("email", JStr("x@y.com")), P("name", JStr("X")),
            P("role", JStr("User")), P("x-api-key", JStr("guess")),
            P("admin", JBool(TRUE))>>),
     JObj(<<P("email", JStr("x@y.com"))>>)}

(***************************************************************************)
(* The inputs of the Host Controller.                                      *)
(***************************************************************************)
Ev(type, action, status) ==
    JObj(<<P("type", JStr(type)), P("action", JStr(action)),
           P("status", JStr(status))>>)

EmbedReady == JObj(<<P("type", JStr("EMBED_READY"))>>)

EmbedReadyText == JText(Stringify(EmbedReady))

LoginSuccess == Ev("embed-login", "login", "success")

LoginInit == Ev("embed-login", "login", "init")

LogoutSuccess == Ev("embed-login", "logout", "success")

LoginError ==
    JObj(<<P("type", JStr("embed-login")), P("action", JStr("login")),
           P("status", JStr("error")), P("message", JStr("bad token"))>>)

AuthRequest == JObj(<<P("type", JStr("auth_request"))>>)

AuthSuccess == JObj(<<P("type", JStr("auth_success"))>>)

AuthFailure == JObj(<<P("type", JStr("auth_failure")), P("reason", JStr("denied"))>>)

Ready == JObj(<<P("type", JStr("ready"))>>)

\* both tag fields present
ReadyWithStatus == JObj(<<P("type", JStr("ready")), P("status", JStr("auth_success"))>>)

\* a recognized type under an unrecognized status
AuthSuccessPending ==
    JObj(<<P("type", JStr("auth_success")), P("status", JStr("pending"))>>)

\* text that is no JSON at all
Garbage == JText(<<Junk("oops")>>)

\* a recognized type under a status that is present and empty
AuthSuccessEmptyStatus ==
    JObj(<<P("type", JStr("auth_success")), P("status", JStr(""))>>)

\* a JSON string cut short
Malformed == JText(<<Punct("{"), StrTok("type"), Punct(":")>>)

\* the JSON text null
NullText == JText(<<Lit("null")>>)

EventData ==
    {EmbedReady, EmbedReadyText, LoginSuccess, LoginInit, LogoutSuccess,
     LoginError, AuthRequest, AuthSuccess, AuthFailure, Ready, ReadyWithStatus,
     AuthSuccessPending, AuthSuccessEmptyStatus, Malformed, Garbage, NullText, JNull}

Events ==
    [origin : {OriginProd}, data : EventData]
    \cup [origin : {OriginLookalike}, data : {EmbedReady, AuthSuccess}]
    \cup [origin : {OriginLocal}, data : {AuthSuccess}]
    \cup [origin : {OriginEvil}, data : {EmbedReady, AuthSuccess, Malformed}]

NoEvent == [origin |-> <<>>, data |-> Undefined]

Last(op, event, req, threw, dispatched) ==
    [op |-> op, event |-> event, req |-> req, threw |-> threw,
     dispatched |-> dispatched]

(***************************************************************************)
(* The inputs of the Widget: the strings a parent window posts to it.      *)
(***************************************************************************)
WLogin == JObj(<<P("action", JStr("login")),
                 P("data", JObj(<<P("token", JStr("T1"))>>))>>)

WLogout == JObj(<<P("action", JStr("logout"))>>)

\* login without data
WLoginNoData == JObj(<<P("action", JStr("login"))>>)

\* login whose data holds no token
WLoginNoToken == JObj(<<P("action", JStr("login")), P("data", JObj(<<>>))>>)

\* an action the listener does not know
WPing == JObj(<<P("action", JStr("ping"))>>)

WidgetCommands ==
    {JText(Stringify(c)) : c \in {WLogin, WLogout, WLoginNoData, WLoginNoToken, WPing}}
    \cup {Malformed, NullText}

(***************************************************************************)
(* The state after mounted() and after the service has started.            *)
(***************************************************************************)
Init ==
    /\ iframeOrigin = JNull
    /\ userCredentials = CredsInitial
    /\ messages = <<>>
    /\ messageIdCounter = 0
    /\ showLoading = TRUE
    /\ isAuthenticated = FALSE
    /\ contentWindow = TRUE
    /\ posted = <<>>
    /\ timerFired = FALSE
    /\ nOps = 0
    /\ last = Last("init", NoEvent, 0, FALSE, FALSE)
    /\ WA_API_KEY = "K1"
    /\ console = StartupLog(WA_API_KEY)
    /\ http = <<>>
    /\ widget = <<>>

(***************************************************************************)
(* Actions of the Host Controller.                                         *)
(***************************************************************************)
\* the window delivers a message event to the listener
Receive(event) ==
    /\ nOps < MaxOps
    /\ LET r == handleMessage(Host, event)
       IN  /\ Commit(r.h)
           /\ last' = Last("handleMessage", event, 0, r.threw, r.dispatched)
    /\ nOps' = nOps + 1
    /\ UNCHANGED <<widget, timerFired, serverVars>>

\* the user fills in the credentials form
SetCredentials(c) ==
    /\ userCredentials # c
    /\ userCredentials' = c
    /\ last' = Last("setCredentials", NoEvent, 0, FALSE, FALSE)
    /\ UNCHANGED <<widget, iframeOrigin, messages, messageIdCounter, showLoading,
                   isAuthenticated, contentWindow, posted, timerFired,
                   nOps, serverVars>>

\* the user presses Logout
Logout ==
    /\ nOps < MaxOps
    /\ Commit(logout(Host))
    /\ nOps' = nOps + 1
    /\ last' = Last("logout", NoEvent, 0, FALSE, FALSE)
    /\ UNCHANGED <<widget, timerFired, serverVars>>

\* the user clears the console
ClearConsole ==
    /\ nOps < MaxOps
    /\ Commit(clearConsole(Host))
    /\ nOps' = nOps + 1
    /\ last' = Last("clearConsole", NoEvent, 0, FALSE, FALSE)
    /\ UNCHANGED <<widget, timerFired, serverVars>>

\* a timeout that also gives up the requests still pending
FallbackTimer_Cancels ==
    /\ ~timerFired
    /\ timerFired' = TRUE
    /\ Commit(hideLoading(Host))
    /\ http' = [i \in 1..Len(http) |->
                  IF http[i].client = "page" /\ http[i].phase # "settled"
                  THEN [http[i] EXCEPT !.phase = "settled"] ELSE http[i]]
    /\ last' = Last("fallbackTimer", NoEvent, 0, FALSE, FALSE)
    /\ UNCHANGED <<widget, nOps, WA_API_KEY, console>>

\* the fallback timeout set by init() fires
FallbackTimer ==
    /\ ~timerFired
    /\ timerFired' = TRUE
    /\ Commit(hideLoading(Host))
    /\ last' = Last("fallbackTimer", NoEvent, 0, FALSE, FALSE)
    /\ UNCHANGED <<widget, nOps, serverVars>>

\* the iframe's window goes away (the element leaves the document)
IframeWindow ==
    /\ nOps < MaxOps
    /\ contentWindow
    /\ contentWindow' = FALSE
    /\ nOps' = nOps + 1
    /\ last' = Last("iframeWindow", NoEvent, 0, FALSE, FALSE)
    /\ UNCHANGED <<widget, iframeOrigin, userCredentials, messages, messageIdCounter,
                   showLoading, isAuthenticated, posted, timerFired, serverVars>>

\* loadToken() up to its await: the request leaves with the credentials of
\* this moment
LoadToken ==
    /\ nOps < MaxOps
    /\ http' = Append(http, Exchange("page", userCredentials))
    /\ nOps' = nOps + 1
    /\ last' = Last("loadToken", NoEvent, Len(http) + 1, FALSE, FALSE)
    /\ UNCHANGED <<widget, iframeOrigin, userCredentials, messages, messageIdCounter,
                   showLoading, isAuthenticated, contentWindow, posted,
                   timerFired, WA_API_KEY, console>>

\* a client that resolves whatever the status
AxiosResult_AnyStatus(response) ==
    [ok |-> TRUE, data |-> JSONParse(response.body).val, message |-> ""]

\* what axios hands to loadToken for a response of the service
AxiosResult(response) ==
    IF response.status >= 200 /\ response.status < 300
    THEN [ok |-> TRUE, data |-> JSONParse(response.body).val, message |-> ""]
    ELSE [ok |-> FALSE, data |-> Undefined,
          message |-> "Request failed with status code 500"]

\* a loadToken that sends no second login Command
loadTokenSettle_Dedup(h, result) ==
    IF ~result.ok
    THEN logMessage(h, Text("Token error", <<>>, result.message), "error")
    ELSE IF Nullish(result.data)
    THEN logMessage(h, Text("Token error", <<>>,
                    "Cannot read properties of " \o ToStr(result.data)), "error")
    ELSE IF \E n \in 1..Len(h.posted) :
               Get(JSONParse(h.posted[n].message).val, "action") = JStr("login")
    THEN h
    ELSE sendMessage(h, JObj(<<P("action", JStr("login")),
                               P("data", JObj(<<P("token", Get(result.data, "token"))>>))>>))

\* a loadToken that sends the token only once the Widget was heard from
loadTokenSettle_AfterReady(h, result) ==
    IF ~result.ok
    THEN logMessage(h, Text("Token error", <<>>, result.message), "error")
    ELSE IF Nullish(result.data)
    THEN logMessage(h, Text("Token error", <<>>,
                    "Cannot read properties of " \o ToStr(result.data)), "error")
    ELSE IF IsNull(h.iframeOrigin)
    THEN logMessage(h, Text("Token error", <<>>, "Widget not ready"), "error")
    ELSE sendMessage(h, JObj(<<P("action", JStr("login")),
                               P("data", JObj(<<P("token", Get(result.data, "token"))>>))>>))

\* a loadToken that keeps the token with the credentials
loadTokenSettle_KeepToken(h, result) ==
    IF ~result.ok
    THEN logMessage(h, Text("Token error", <<>>, result.message), "error")
    ELSE IF Nullish(result.data)
    THEN logMessage(h, Text("Token error", <<>>,
                    "Cannot read properties of " \o ToStr(result.data)), "error")
    ELSE sendMessage(
            [h EXCEPT !.userCredentials =
                JObj(@.obj \o <<P("token", Get(result.data, "token"))>>)],
            JObj(<<P("action", JStr("login")),
                   P("data", JObj(<<P("token", Get(result.data, "token"))>>))>>))

\* a login Command that forgets the token
loadTokenSettle_NoToken(h, result) ==
    IF ~result.ok
    THEN logMessage(h, Text("Token error", <<>>, result.message), "error")
    ELSE sendMessage(h, JObj(<<P("action", JStr("login")), P("data", JObj(<<>>))>>))

\* loadToken() after its await
loadTokenSettle(h, result) ==
    IF ~result.ok
    THEN logMessage(h, Text("Token error", <<>>, result.message), "error")
    ELSE IF Nullish(result.data)
    THEN logMessage(h, Text("Token error", <<>>,
                    "Cannot read properties of " \o ToStr(result.data)), "error")
    ELSE sendMessage(h, JObj(<<P("action", JStr("login")),
                               P("data", JObj(<<P("token", Get(result.data, "token"))>>))>>))

\* the response of the service reaches the page
LoadTokenSettle(i) ==
    /\ http[i].client = "page"
    /\ http[i].phase = "responded"
    /\ Commit(loadTokenSettle(Host, AxiosResult(http[i].responses[1])))
    /\ http' = [http EXCEPT ![i].phase = "settled"]
    /\ last' = Last("loadTokenSettle", NoEvent, i, FALSE, FALSE)
    /\ UNCHANGED <<widget, timerFired, nOps, WA_API_KEY, console>>

\* the request never reaches the service
LoadTokenNetworkError(i) ==
    /\ http[i].client = "page"
    /\ http[i].phase = "sent"
    /\ Commit(loadTokenSettle(Host, [ok |-> FALSE, data |-> Undefined,
                                     message |-> "Network Error"]))
    /\ http' = [http EXCEPT ![i].phase = "settled"]
    /\ last' = Last("loadTokenNetworkError", NoEvent, i, FALSE, FALSE)
    /\ UNCHANGED <<widget, timerFired, nOps, WA_API_KEY, console>>

(***************************************************************************)
(* Actions of the Token Exchange Service and of its clients.               *)
(***************************************************************************)
\* another client posts to the endpoint
ExternalPost(body) ==
    /\ nOps < MaxOps
    /\ http' = Append(http, Exchange("external", body))
    /\ nOps' = nOps + 1
    /\ UNCHANGED <<widget, iframeOrigin, userCredentials, messages, messageIdCounter,
                   showLoading, isAuthenticated, contentWindow, posted,
                   timerFired, last, WA_API_KEY, console>>

\* the handler runs up to its await: the upstream request leaves
PostGetWaToken(i) ==
    /\ http[i].phase = "sent"
    /\ http' = [http EXCEPT
                  ![i].upstream = Append(@, UpstreamRequest(WA_API_KEY, ReqBody(http[i]))),
                  ![i].phase = "upstream"]
    /\ UNCHANGED <<widget, hostVars, last, WA_API_KEY, console>>

\* a handler that tries the upstream call once more when it fails
UpstreamSettle_RetryOnce(i, outcome) ==
    /\ http[i].phase = "upstream"
    /\ IF outcome.kind # "ok" /\ Len(http[i].upstream) < 2
       THEN /\ http' = [http EXCEPT ![i].upstream =
                           Append(@, UpstreamRequest(WA_API_KEY, ReqBody(http[i])))]
            /\ console' = console
       ELSE LET r == postGetWaToken(WA_API_KEY, ReqBody(http[i]), outcome)
            IN  /\ http' = [http EXCEPT ![i].responses = @ \o r.responses,
                                        ![i].outcome = outcome,
                                        ![i].phase = "responded"]
                /\ console' = console \o r.printed
    /\ UNCHANGED <<widget, hostVars, last, WA_API_KEY>>

\* the upstream call settles and the handler answers
UpstreamSettle(i, outcome) ==
    /\ http[i].phase = "upstream"
    /\ LET r == postGetWaToken(WA_API_KEY, ReqBody(http[i]), outcome)
       IN  /\ http' = [http EXCEPT ![i].responses = @ \o r.responses,
                                   ![i].outcome = outcome,
                                   ![i].phase = "responded"]
           /\ console' = console \o r.printed
    /\ UNCHANGED <<widget, hostVars, last, WA_API_KEY>>

(***************************************************************************)
(* Actions of the Widget.                                                  *)
(***************************************************************************)
\* a message event reaches the listener
WidgetReceive(data) ==
    /\ nOps < MaxOps
    /\ widget' = Append(widget, postMessagesListener(data))
    /\ nOps' = nOps + 1
    /\ UNCHANGED <<iframeOrigin, userCredentials, messages, messageIdCounter,
                   showLoading, isAuthenticated, contentWindow, posted,
                   timerFired, last, serverVars>>

\* signInWithCustomToken / signOut settles
WidgetAuthSettles(i, how) ==
    /\ widget[i].pc = "auth"
    /\ widget' = [widget EXCEPT ![i] = embedAuthSettled(@, how)]
    /\ UNCHANGED <<hostVars, last, serverVars>>

\* router.push settles
WidgetPushSettles(i, how) ==
    /\ widget[i].pc = "push"
    /\ widget' = [widget EXCEPT ![i] = embedPushSettled(@, how)]
    /\ UNCHANGED <<hostVars, last, serverVars>>

(***************************************************************************)
(* Specifications.                                                         *)
(*   Spec        the page and the service end to end, the Widget speaking  *)
(*               its protocol from its own origin                          *)
(*   SpecHost    the Host Controller alone, under every message event      *)
(*   SpecServer  the Token Exchange Service alone, under every client      *)
(*   SpecWidget  the Widget's reference listener alone, under every Command *)
(*   SpecLive    token requests and the fallback timeout, the timeout fair  *)
(***************************************************************************)
CoreEvents ==
    [origin : {OriginProd},
     data : {EmbedReady, LoginSuccess, LogoutSuccess, AuthSuccess, AuthRequest}]

CoreOutcomes == {o \in Outcomes : o.kind \in {"ok", "status"}}

Next ==
    \/ \E event \in CoreEvents : Receive(event)
    \/ SetCredentials(CredsA)
    \/ Logout
    \/ ClearConsole
    \/ IframeWindow
    \/ LoadToken
    \/ \E i \in 1..Len(http) : LoadTokenSettle(i)
    \/ \E i \in 1..Len(http) : LoadTokenNetworkError(i)
    \/ \E i \in 1..Len(http) : PostGetWaToken(i)
    \/ \E i \in 1..Len(http), outcome \in CoreOutcomes : UpstreamSettle(i, outcome)

Spec == Init /\ [][Next]_vars

NextHost ==
    \/ \E event \in Events : Receive(event)
    \/ SetCredentials(CredsA)
    \/ Logout
    \/ ClearConsole
    \/ IframeWindow

SpecHost == Init /\ [][NextHost]_vars

InitServer ==
    /\ iframeOrigin = JNull
    /\ userCredentials = CredsInitial
    /\ messages = <<>>
    /\ messageIdCounter = 0
    /\ showLoading = TRUE
    /\ isAuthenticated = FALSE
    /\ contentWindow = TRUE
    /\ posted = <<>>
    /\ timerFired = FALSE
    /\ nOps = 0
    /\ last = Last("init", NoEvent, 0, FALSE, FALSE)
    /\ WA_API_KEY \in Keys
    /\ console = StartupLog(WA_API_KEY)
    /\ http = <<>>
    /\ widget = <<>>

NextServer ==
    \/ \E body \in ExternalBodies : ExternalPost(body)
    \/ \E i \in 1..Len(http) : PostGetWaToken(i)
    \/ \E i \in 1..Len(http), outcome \in Outcomes : UpstreamSettle(i, outcome)

SpecServer == InitServer /\ [][NextServer]_vars

\* the page and the service with the fallback timeout of init(), which the
\* browser runs once its ten seconds are over; nothing obliges the upstream
\* authority to answer
NextLive ==
    \/ LoadToken
    \/ FallbackTimer
    \/ \E i \in 1..Len(http) : LoadTokenSettle(i)
    \/ \E i \in 1..Len(http) : PostGetWaToken(i)
    \/ \E i \in 1..Len(http), outcome \in CoreOutcomes : UpstreamSettle(i, outcome)

SpecLive == Init /\ [][NextLive]_vars /\ WF_vars(FallbackTimer)

NextWidget ==
    \/ \E data \in WidgetCommands : WidgetReceive(data)
    \/ \E i \in 1..Len(widget), how \in Settlements : WidgetAuthSettles(i, how)
    \/ \E i \in 1..Len(widget), how \in Settlements : WidgetPushSettles(i, how)

SpecWidget == Init /\ [][NextWidget]_vars

(***************************************************************************)
(* Vocabulary of the properties.                                           *)
(***************************************************************************)
Ack == JObj(<<P("type", JStr("ack")), P("receivedType", JStr("EMBED_READY"))>>)

LoginCommand(t) ==
    JObj(<<P("action", JStr("login")), P("data", JObj(<<P("token", t)>>))>>)

\* a message as contentWindow.postMessage received it
Wire(msg) == [message |-> JText(Stringify(msg)), targetOrigin |-> Wildcard]

\* this step is handleMessage(last'.event)
HandledEvent ==
    last'.op = "handleMessage" /\ nOps' = nOps + 1 /\ http' = http

\* this step is loadToken resuming with the response to request i
SettledRequest(i) ==
    /\ last'.op = "loadTokenSettle"
    /\ last'.req = i
    /\ http[i].phase = "responded"
    /\ http'[i].phase = "settled"

LastMessage == messages[Len(messages)]

(***************************************************************************)
(* C1  After EMBED_READY was acknowledged and loadToken, called with the   *)
(* credentials a@b.com / A / User, got {token: T1}, the login Command with *)
(* T1 is sent, authenticated stays false, and it is true once the event    *)
(* embed-login / login / success from the Widget's origin was processed.   *)
(***************************************************************************)
C1_LoginSent ==
    /\ Len(posted) = 2
    /\ posted[1] = Wire(Ack)
    /\ posted[2] = Wire(LoginCommand(JStr("T1")))
    /\ \E i \in 1..Len(http) :
         /\ http[i].client = "page"
         /\ http[i].body = JText(Stringify(CredsA))
         /\ http[i].phase = "settled"
         /\ http[i].outcome.kind = "ok"

C1_AuthenticatedOnLoginSuccess ==
    /\ (C1_LoginSent /\ nOps = 2) => ~isAuthenticated
    /\ (/\ C1_LoginSent
        /\ last.op = "handleMessage"
        /\ last.event = [origin |-> OriginProd, data |-> LoginSuccess])
       => isAuthenticated

(***************************************************************************)
(* C2  Every delivery of EMBED_READY, as an object or as a JSON string and *)
(* whatever the state of the iframe, posts exactly one ack.                *)
(***************************************************************************)
IsEmbedReady(data) == data = EmbedReady \/ data = EmbedReadyText

C2_ExactlyOneAck ==
    [][(HandledEvent /\ IsEmbedReady(last'.event.data))
       => posted' = Append(posted, Wire(Ack))]_vars

(***************************************************************************)
(* C3  When the token endpoint answers a loadToken call with {token: t},   *)
(* exactly one Command is sent, the login Command carrying t.  As amended: *)
(* provided the iframe's window is available when the answer arrives;      *)
(* when it is not, nothing is sent.                                        *)
(***************************************************************************)
C3_Original ==
    [][\A i \in 1..Len(http) :
         (SettledRequest(i) /\ http[i].outcome.kind = "ok")
         => posted' = Append(posted,
                Wire(LoginCommand(Get(http[i].outcome.data, "token"))))]_vars

C3_OneLoginPerToken ==
    [][\A i \in 1..Len(http) :
         (SettledRequest(i) /\ http[i].outcome.kind = "ok")
         => IF contentWindow
            THEN posted' = Append(posted,
                     Wire(LoginCommand(Get(http[i].outcome.data, "token"))))
            ELSE posted' = posted /\ messages' = messages]_vars

C3_Witness ==
    /\ last.op = "loadTokenSettle"
    /\ http[last.req].outcome.kind = "ok"
    /\ contentWindow
    /\ Len(posted) > 0
    /\ posted[Len(posted)] = Wire(LoginCommand(JStr("T2")))

(***************************************************************************)
(* C4  When the upstream authority answers HTTP 500, loadToken leaves      *)
(* authenticated as it was, sends no Command and appends exactly one log   *)
(* entry, of direction error.                                              *)
(***************************************************************************)
C4_Upstream500 ==
    [][\A i \in 1..Len(http) :
         (/\ SettledRequest(i)
          /\ http[i].outcome.kind = "status"
          /\ http[i].outcome.status = 500)
         => /\ isAuthenticated' = isAuthenticated
            /\ posted' = posted
            /\ Len(messages') = Len(messages) + 1
            /\ SubSeq(messages', 1, Len(messages)) = messages
            /\ messages'[Len(messages')].type = "error"
            /\ messages'[Len(messages')].text.label = "Token error"]_vars

C4_Witness ==
    /\ last.op = "loadTokenSettle"
    /\ http[last.req].outcome.kind = "status"
    /\ isAuthenticated
    /\ Len(messages) > 0
    /\ LastMessage.type = "error"

(***************************************************************************)
(* C5  A message whose payload is a malformed JSON string makes            *)
(* handleMessage append a 'Parse error' entry of direction error, without  *)
(* throwing and without dispatching.  As amended: when its origin passes   *)
(* the allow-list check; from any other origin it is dropped and nothing   *)
(* is logged.                                                              *)
(***************************************************************************)
IsMalformed(data) == data = Malformed \/ data = Garbage

ParseErrorEntries(data) ==
    <<[id |-> messageIdCounter,
       text |-> Text("Received", Stringify(data), ""), type |-> "received"],
      [id |-> messageIdCounter + 1,
       text |-> Text("Parse error", <<>>, "Unexpected token"), type |-> "error"]>>

C5_Original ==
    [][(HandledEvent /\ IsMalformed(last'.event.data))
       => /\ ~last'.threw
          /\ ~last'.dispatched
          /\ messages' = messages \o ParseErrorEntries(last'.event.data)]_vars

C5_ParseErrorLogged ==
    [][(HandledEvent /\ IsMalformed(last'.event.data))
       => /\ ~last'.threw
          /\ ~last'.dispatched
          /\ isAuthenticated' = isAuthenticated
          /\ posted' = posted
          /\ IF OriginAllowed(last'.event.origin)
             THEN messages' = messages \o ParseErrorEntries(last'.event.data)
             ELSE messages' = messages]_vars

C5_Witness ==
    /\ last.op = "handleMessage"
    /\ last.event = [origin |-> OriginProd, data |-> Malformed]
    /\ ~last.threw
    /\ LastMessage.text.label = "Parse error"

(***************************************************************************)
(* C6  For every message whose discriminant (status if present, else type) *)
(* is none of auth_request, auth_success, auth_failure, ready, success,    *)
(* error, processMessage changes nothing.  As amended: the discriminant is *)
(* status if it is truthy (present and not empty), else type.              *)
(***************************************************************************)
Recognized ==
    {"auth_request", "auth_success", "auth_failure", "ready", "success", "error"}

IsRecognized(d) == IsStr(d) /\ d.str \in Recognized

\* status if present, else type
PresentDiscriminant(msg) ==
    IF IsUndefined(Get(msg, "status")) THEN Get(msg, "type") ELSE Get(msg, "status")

\* status if truthy, else type
TruthyDiscriminant(msg) ==
    IF Truthy(Get(msg, "status")) THEN Get(msg, "status") ELSE Get(msg, "type")

\* the message handleMessage passed to processMessage in this step
Dispatched == ParsedData(last'.event.data).val

C6_Original ==
    [][(/\ HandledEvent
        /\ last'.dispatched
        /\ ~Nullish(Dispatched)
        /\ ~IsRecognized(PresentDiscriminant(Dispatched)))
       => Host' = handleMessage(Host, last'.event).atDispatch]_vars

C6_UnrecognizedNoOp ==
    [][(/\ HandledEvent
        /\ last'.dispatched
        /\ ~Nullish(Dispatched)
        /\ ~IsRecognized(TruthyDiscriminant(Dispatched)))
       => Host' = handleMessage(Host, last'.event).atDispatch]_vars

C6_Witness ==
    /\ last.op = "handleMessage"
    /\ last.dispatched
    /\ last.event = [origin |-> OriginProd, data |-> AuthSuccessPending]
    /\ ~isAuthenticated
    /\ LastMessage.text.label = "Received"

(***************************************************************************)
(* C7  No response of POST /get-wa-token holds the secret, on the success  *)
(* path and on every failure path: the response is the one the handler     *)
(* gives under any other secret for the same request and upstream reply.   *)
(***************************************************************************)
\* the string s occurs in the serialized text
TextHolds(text, s) ==
    \E j \in 1..Len(text.text) : text.text[j].t = "string" /\ text.text[j].v = s

C7_ResponseIndependentOfSecret ==
    \A i \in 1..Len(http) :
      /\ \A n \in 1..Len(http[i].responses) :
           ~TextHolds(http[i].responses[n].body, WA_API_KEY)
      /\ http[i].phase = "responded" =>
           \A k \in Keys :
             postGetWaToken(k, ReqBody(http[i]), http[i].outcome).responses
               = http[i].responses

C7_Witness ==
    /\ \E i \in 1..Len(http) :
         http[i].phase = "responded" /\ http[i].outcome.kind = "timeout"
    /\ \E i \in 1..Len(http) :
         http[i].phase = "responded" /\ http[i].outcome.kind = "ok"

(***************************************************************************)
(* C8  The secret appears in nothing the service prints: not in the        *)
(* configuration printed at startup, not in the error printed when the     *)
(* upstream call fails.                                                    *)
(***************************************************************************)
\* the printed line shows the string s
LineShows(line, s) ==
    IF "error" \in DOMAIN line
    THEN \/ line.error.message = s
         \/ \E n \in 1..Len(line.error.config.headers) :
              line.error.config.headers[n].val = JStr(s)
    ELSE line.arg = s

C8_SecretNeverPrinted ==
    \A n \in 1..Len(console) : ~LineShows(console[n], WA_API_KEY)

(***************************************************************************)
(* C9  The upstream request carries a body of exactly the fields email,    *)
(* name and role, each taken from the incoming request and no other field  *)
(* of it, and the secret as the x-api-key header only.                     *)
(***************************************************************************)
C9_UpstreamRequestShape ==
    \A i \in 1..Len(http) : \A n \in 1..Len(http[i].upstream) :
      LET u == http[i].upstream[n]
          fields == u.data.obj
      IN  /\ Len(fields) = 3
          /\ <<fields[1].key, fields[2].key, fields[3].key>> = <<"email", "name", "role">>
          /\ \A m \in 1..3 :
               /\ fields[m].val = Get(ReqBody(http[i]), fields[m].key)
               /\ fields[m].val # JStr(WA_API_KEY)
          /\ u.headers = <<P("x-api-key", JStr(WA_API_KEY))>>
          /\ ~TextHolds(JText(Stringify(u.data)), WA_API_KEY)
          /\ ~TextHolds(JText(Stringify(u.data)), "x-api-key")

C9_Witness ==
    \E i \in 1..Len(http) :
      /\ Len(http[i].upstream) = 1
      /\ Get(ReqBody(http[i]), "admin") = JBool(TRUE)
      /\ Get(ReqBody(http[i]), "x-api-key") = JStr("guess")

C11_OneAttempt ==
    [][/\ \A i \in 1..Len(http') :
             /\ Len(http'[i].upstream) <= 1
             /\ http'[i].phase \in {"upstream", "responded"}
                    => Len(http'[i].upstream) = 1
       /\ Len(http') # Len(http)
             => /\ Len(http') = Len(http) + 1
                /\ last'.op = "loadToken"
                /\ last'.req = Len(http')
                /\ nOps' = nOps + 1
       /\ \A i \in 1..Len(http) :
             /\ i <= Len(http')
             /\ http'[i].body = http[i].body
             /\ Len(http'[i].upstream) >= Len(http[i].upstream)]_vars

\* one call of loadToken failed on an upstream 500 and left one request of
\* each kind
C11_Witness ==
    /\ Len(http) = 1
    /\ http[1].client = "page"
    /\ http[1].phase = "settled"
    /\ http[1].outcome.kind = "status"
    /\ Len(http[1].upstream) = 1
    /\ last.op = "loadTokenSettle"
    /\ Len(messages) > 0
    /\ LastMessage.text.label = "Token error"

(***************************************************************************)
(* C12  logout() sends one Command {action: 'logout'} and leaves           *)
(* authenticated as it was; authenticated goes from true to false in the   *)
(* step that processes a received embed-login/logout/success event, and in *)
(* no other step.                                                          *)
(***************************************************************************)
LogoutCommand == JObj(<<P("action", JStr("logout"))>>)

IsLogoutSuccess(event) ==
    /\ event.data = LogoutSuccess
    /\ OriginAllowed(event.origin)

C12_ClearedOnLogoutSuccess ==
    [][/\ (last'.op = "logout" /\ nOps' = nOps + 1 /\ contentWindow)
             => /\ posted' = Append(posted, Wire(LogoutCommand))
                /\ isAuthenticated' = isAuthenticated
       /\ (isAuthenticated /\ ~isAuthenticated')
             => HandledEvent /\ IsLogoutSuccess(last'.event)
       /\ (HandledEvent /\ IsLogoutSuccess(last'.event) /\ last'.dispatched)
             => ~isAuthenticated']_vars

(***************************************************************************)
(* C13  Every message sendMessage posts to the Widget has as its target    *)
(* origin the captured iframeOrigin when one is known, and the origin of   *)
(* the iframe's src otherwise.                                             *)
(***************************************************************************)
C13_TargetOriginPinned ==
    [][\A n \in (Len(posted) + 1)..Len(posted') :
          posted'[n].targetOrigin = targetOrigin(Host')]_vars

(***************************************************************************)
(* C14  A message whose origin matches no entry of the allow-list is       *)
(* dropped whatever it holds: processMessage is not called, no entry of    *)
(* direction received or error joins the log, and authenticated,           *)
(* showLoading and the credentials stay as they were.                      *)
(***************************************************************************)
C14_UntrustedDropped ==
    [][(HandledEvent /\ ~OriginAllowed(last'.event.origin))
          => /\ ~last'.dispatched
             /\ isAuthenticated' = isAuthenticated
             /\ showLoading' = showLoading
             /\ userCredentials' = userCredentials
             /\ Len(messages') >= Len(messages)
             /\ SubSeq(messages', 1, Len(messages)) = messages
             /\ \A n \in (Len(messages) + 1)..Len(messages') :
                   messages'[n].type \notin {"received", "error"}]_vars

\* auth_success came from an origin off the list and changed nothing
C14_Witness ==
    /\ last.op = "handleMessage"
    /\ last.event.origin = OriginEvil
    /\ last.event.data = AuthSuccess
    /\ ~OriginAllowed(last.event.origin)
    /\ ~last.dispatched
    /\ ~isAuthenticated
    /\ messages = <<>>

(***************************************************************************)
(* C15  EMBED_READY is acknowledged before the origin of its sender is     *)
(* checked: what a delivery of EMBED_READY posts is what the same delivery *)
(* from a trusted origin posts, and for the Widget's own form of the event *)
(* that is one ack, logged as sent ahead of any other entry of the step.   *)
(***************************************************************************)
C15_AckBeforeOriginCheck ==
    [][(HandledEvent /\ IsEmbedReady(last'.event.data))
          => /\ posted' = handleMessage(Host, [origin |-> OriginProd,
                                               data |-> last'.event.data]).h.posted
             /\ (last'.event.data = EmbedReady /\ contentWindow)
                   => /\ posted' = Append(posted, Wire(Ack))
                      /\ Len(messages') > Len(messages)
                      /\ messages'[Len(messages) + 1] =
                            [id |-> messageIdCounter,
                             text |-> Text("Sent", Stringify(Ack), ""),
                             type |-> "sent"]]_vars

\* an origin off the list sent EMBED_READY and got the ack
C15_Witness ==
    /\ last.op = "handleMessage"
    /\ last.event.data = EmbedReady
    /\ ~OriginAllowed(last.event.origin)
    /\ posted # <<>>
    /\ posted[Len(posted)] = Wire(Ack)
    /\ messages # <<>>
    /\ LastMessage.type = "sent"
    /\ LastMessage.text.body = Stringify(Ack)

(***************************************************************************)
(* C16  Every send is mirrored into the log: each message a step posts     *)
(* (ack, user_credentials, login, logout) comes with exactly one new entry *)
(* of direction sent that holds the serialized message, every new entry of *)
(* direction sent that holds a message is one that was posted, and while   *)
(* the iframe's window is unavailable there is neither post nor entry.     *)
(***************************************************************************)
NewPosted == SubSeq(posted', Len(posted) + 1, Len(posted'))

NewEntries ==
    IF Len(messages') >= Len(messages)
    THEN SubSeq(messages', Len(messages) + 1, Len(messages'))
    ELSE <<>>

\* a log entry of direction sent that holds the serialized message
Mirrors(entry, message) ==
    entry.type = "sent" /\ JText(entry.text.body) = message

C16_SendMirrored ==
    [][/\ \A k \in 1..Len(NewPosted) :
             Cardinality({n \in 1..Len(NewEntries) :
                             Mirrors(NewEntries[n], NewPosted[k].message)}) = 1
       /\ \A n \in 1..Len(NewEntries) :
             (NewEntries[n].type = "sent" /\ NewEntries[n].text.body # <<>>)
                => \E k \in 1..Len(NewPosted) :
                      Mirrors(NewEntries[n], NewPosted[k].message)
       /\ ~contentWindow
             => /\ posted' = posted
                /\ \A n \in 1..Len(NewEntries) :
                      NewEntries[n].type = "sent"
                         => NewEntries[n].text.body = <<>>]_vars

\* logout() posted its Command: the log holds the entry that mirrors it,
\* then the note 'Logout request sent'
C16_Witness ==
    /\ last.op = "logout"
    /\ posted # <<>>
    /\ posted[Len(posted)] = Wire(LogoutCommand)
    /\ Len(messages) >= 2
    /\ Mirrors(messages[Len(messages) - 1], posted[Len(posted)].message)
    /\ LastMessage.text = Text("Logout request sent", <<>>, "")
    /\ \E n \in 1..Len(posted) : \E t \in {"T1", "T2"} :
          posted[n] = Wire(LoginCommand(JStr(t)))

(***************************************************************************)
(* C17  The token is not kept: once loadToken has forwarded a token in a   *)
(* login Command, nothing in the state of the Host Controller holds its    *)
(* value.  As amended: nothing but the message log, where the entry of     *)
(* direction sent that mirrors the login Command holds it.                 *)
(***************************************************************************)
Tokens == {"T1", "T2"}

Forwarded(t) ==
    \E n \in 1..Len(posted) : posted[n] = Wire(LoginCommand(JStr(t)))

\* the object has a field of value s
ObjHolds(object, s) ==
    \E n \in 1..Len(object.obj) : object.obj[n].val = JStr(s)

\* the text of the log entry shows s
EntryHolds(entry, s) ==
    TextHolds(JText(entry.text.body), s) \/ entry.text.detail = s

C17_Original ==
    \A t \in Tokens :
       Forwarded(t)
          => /\ ~ObjHolds(userCredentials, t)
             /\ iframeOrigin # [origin |-> <<t>>]
             /\ \A n \in 1..Len(messages) : ~EntryHolds(messages[n], t)

C17_TokenOnlyInSentEntry ==
    \A t \in Tokens :
       /\ ~ObjHolds(userCredentials, t)
       /\ iframeOrigin # [origin |-> <<t>>]
       /\ \A n \in 1..Len(messages) :
             EntryHolds(messages[n], t)
                => /\ messages[n].type = "sent"
                   /\ messages[n].text =
                         Text("Sent", Stringify(LoginCommand(JStr(t))), "")
                   /\ Forwarded(t)

\* the login Command with T1 was sent and the log shows T1
C17_Witness ==
    /\ Forwarded("T1")
    /\ last.op = "loadTokenSettle"
    /\ messages # <<>>
    /\ EntryHolds(LastMessage, "T1")
    /\ userCredentials = CredsA

(***************************************************************************)
(* C18  The message log is append-only: the log of any later state has the *)
(* earlier log as a prefix.  As amended: in every step but clearConsole,   *)
(* which empties the log and leaves the id counter where it was; the ids   *)
(* of new entries continue from the counter.                               *)
(***************************************************************************)
LogExtended ==
    /\ Len(messages') >= Len(messages)
    /\ SubSeq(messages', 1, Len(messages)) = messages

C18_Original == [][LogExtended]_vars

C18_AppendOnlyUntilCleared ==
    [][IF last'.op = "clearConsole" /\ nOps' = nOps + 1
       THEN messages' = <<>> /\ messageIdCounter' = messageIdCounter
       ELSE /\ LogExtended
            /\ messageIdCounter' = messageIdCounter + Len(messages') - Len(messages)
            /\ \A n \in (Len(messages) + 1)..Len(messages') :
                  messages'[n].id = messageIdCounter + n - Len(messages) - 1]_vars

\* the log grew, was cleared and grew again
C18_Witness ==
    /\ messages # <<>>
    /\ messages[1].id > 0
    /\ messageIdCounter = messages[Len(messages)].id + 1

(***************************************************************************)
(* C19  No exception leaves the Host Controller: whatever the message      *)
(* event holds (a string, an object or null) and wherever it comes from,   *)
(* handleMessage returns normally, and no other operation of the page      *)
(* throws to its caller.                                                   *)
(***************************************************************************)
C19_NoExceptionEscapes == ~last.threw

(***************************************************************************)
(* C20  For every login Command with a token that the Widget accepts, the  *)
(* Widget posts embed-login/login/init first and then exactly one settling *)
(* event, success or error: never both, and not neither once the run has   *)
(* ended.  The same for logout.                                            *)
(***************************************************************************)
\* the settling events the run posted
Settling(run) ==
    {n \in 1..Len(run.emitted) :
        Get(run.emitted[n], "status") \in {JStr("success"), JStr("error")}}

C20_InitThenOneSettling ==
    \A i \in 1..Len(widget) :
       widget[i].action \in {"login", "logout"}
          => /\ widget[i].emitted[1] = Result(widget[i].action, "init")
             /\ Cardinality(Settling(widget[i])) <= 1
             /\ widget[i].pc = "done" => Cardinality(Settling(widget[i])) = 1

(***************************************************************************)
(* C21  For every malformed Command, text that is no JSON or a login       *)
(* Command without a token (data absent, or data present with no token),   *)
(* the Widget posts {type: 'embed-login', action: 'login', status:         *)
(* 'error', message: 'invalid-message'}.                                   *)
(***************************************************************************)
MalformedCommand(data) ==
    LET parsed == JSONParse(data)
    IN  \/ ~parsed.ok
        \/ /\ IsObj(parsed.val)
           /\ Get(parsed.val, "action") = JStr("login")
           /\ \/ Nullish(Get(parsed.val, "data"))
              \/ IsUndefined(Get(Get(parsed.val, "data"), "token"))

C21_InvalidMessagePosted ==
    \A i \in 1..Len(widget) :
       MalformedCommand(widget[i].data) => widget[i].emitted = <<InvalidMessage>>

(***************************************************************************)
(* C22  While the upstream call of a token request has not returned, the   *)
(* loadToken that waits for it has produced nothing, neither a login       *)
(* Command nor a 'Token error' entry; the loading indicator is eventually  *)
(* cleared all the same, by the fallback timeout; the timeout changes      *)
(* nothing but the indicator, pending requests included, and a response    *)
(* that comes later is handled as any other.                               *)
(***************************************************************************)
\* the outcomes loadToken produced so far: Commands posted and errors logged
LoadTokenOutcomes ==
    Len(posted)
    + Cardinality({n \in 1..Len(messages) : messages[n].text.label = "Token error"})

SettledCount ==
    Cardinality({i \in 1..Len(http) : http[i].phase = "settled"})

TimeoutFires == ~timerFired /\ timerFired'

C22_HungRequestKeepsWaiting ==
    /\ <>(~showLoading)
    /\ [](LoadTokenOutcomes = SettledCount)
    /\ [][TimeoutFires
            => /\ ~showLoading'
               /\ http' = http
               /\ posted' = posted
               /\ messages' = messages
               /\ isAuthenticated' = isAuthenticated]_vars
    /\ [][\A i \in 1..Len(http) :
            SettledRequest(i)
               => Host' = loadTokenSettle(Host, AxiosResult(http[i].responses[1]))]_vars

\* the upstream call has not returned: the timeout has cleared the
\* indicator and loadToken has produced nothing
C22_Witness ==
    /\ timerFired
    /\ ~showLoading
    /\ Len(http) = 1
    /\ http[1].phase = "upstream"
    /\ posted = <<>>
    /\ messages = <<>>

(***************************************************************************)
(* C23  processMessage routes on one discriminant, msg.status when status  *)
(* is present and msg.type otherwise: a message with both fields is        *)
(* handled as the same message without its type; auth_request sends        *)
(* user_credentials with a copy of the current credentials, auth_success   *)
(* sets authenticated, ready clears the loading state, and auth_failure,   *)
(* success and error only append one log entry.  As amended: msg.status    *)
(* when status is truthy (present and not empty).                          *)
(***************************************************************************)
\* the state in which handleMessage called processMessage in this step
AtDispatch == handleMessage(Host, last'.event).atDispatch

NotType(p) == p.key # "type"

WithoutType(msg) == JObj(SelectSeq(msg.obj, NotType))

UserCredentialsMessage(c) ==
    JObj(<<P("type", JStr("user_credentials")), P("credentials", c),
           P("timestamp", NowISO)>>)

\* what this step did after the dispatch is the handling of discriminant d
RoutedAs(d) ==
    LET h == AtDispatch
    IN  CASE d = JStr("auth_request") ->
               /\ posted' = IF contentWindow
                            THEN Append(h.posted,
                                        Wire(UserCredentialsMessage(userCredentials)))
                            ELSE h.posted
               /\ isAuthenticated' = isAuthenticated
               /\ showLoading' = showLoading
          [] d = JStr("auth_success") ->
               /\ isAuthenticated'
               /\ showLoading' = showLoading
               /\ posted' = h.posted
          [] d = JStr("ready") -> Host' = [h EXCEPT !.showLoading = FALSE]
          [] d \in {JStr("auth_failure"), JStr("success"), JStr("error")} ->
               /\ Len(messages') = Len(h.messages) + 1
               /\ Host' = [h EXCEPT !.messages = messages',
                                    !.messageIdCounter = @ + 1]
          [] OTHER -> TRUE

DispatchedObject ==
    HandledEvent /\ last'.dispatched /\ IsObj(Dispatched)

C23_Original ==
    [][DispatchedObject
          => /\ RoutedAs(PresentDiscriminant(Dispatched))
             /\ ~IsUndefined(Get(Dispatched, "status"))
                   => Host' = processMessage(AtDispatch, WithoutType(Dispatched)).h]_vars

C23_RoutesOnTruthyStatus ==
    [][DispatchedObject
          => /\ RoutedAs(TruthyDiscriminant(Dispatched))
             /\ Truthy(Get(Dispatched, "status"))
                   => Host' = processMessage(AtDispatch, WithoutType(Dispatched)).h]_vars

\* {type: 'ready', status: 'auth_success'} was handled as auth_success
C23_Witness ==
    /\ last.op = "handleMessage"
    /\ last.dispatched
    /\ last.event = [origin |-> OriginProd, data |-> ReadyWithStatus]
    /\ isAuthenticated
    /\ showLoading
    /\ LastMessage.text.label = "Authenticated"

(***************************************************************************)
(* C24  A received message reaches processMessage if and only if its       *)
(* origin holds, as a substring, the host[:port] part of an allow-list     *)
(* entry; the scheme is not compared, and an origin that merely embeds     *)
(* such a host name is treated as the trusted origin itself.  As amended:  *)
(* if and only if it does so and its payload is neither null nor a string  *)
(* that fails to parse.                                                    *)
(***************************************************************************)
TrustedHosts == {<<"app-qa.whatsbox.io">>, <<"app.whatsbox.io">>, <<"localhost:3000">>}

ContainsTrustedHost(o) == \E host \in TrustedHosts : Includes(o, host)

\* the Host Controller but for the origin it captured
ButOrigin(h) == [h EXCEPT !.iframeOrigin = JNull]

C24_Original ==
    [][HandledEvent
          => (last'.dispatched <=> ContainsTrustedHost(last'.event.origin))]_vars

C24_SubstringMatch ==
    [][HandledEvent
          => /\ last'.dispatched
                   <=> /\ ContainsTrustedHost(last'.event.origin)
                       /\ ~Nullish(last'.event.data)
                       /\ ParsedData(last'.event.data).ok
             /\ ContainsTrustedHost(last'.event.origin)
                   => ButOrigin(Host') =
                         ButOrigin(handleMessage(Host,
                            [origin |-> OriginProd, data |-> last'.event.data]).h)]_vars

\* auth_success from an origin that embeds a trusted host name was
\* dispatched
C24_Witness ==
    /\ last.op = "handleMessage"
    /\ last.event = [origin |-> OriginLookalike, data |-> AuthSuccess]
    /\ last.dispatched
    /\ isAuthenticated
    /\ iframeOrigin = [origin |-> OriginLookalike]

(***************************************************************************)
(* C25  The readiness ordering is not enforced: loadToken called before    *)
(* any message of the Widget was received still puts its request, and the  *)
(* token that comes back is sent in a login Command, so that a login       *)
(* Command can go out ahead of the first EMBED_READY / ack exchange.       *)
(***************************************************************************)
\* no message event was handled so far, EMBED_READY included
NothingReceived == IsNull(iframeOrigin)

C25_LoginBeforeReady ==
    [][/\ (NothingReceived /\ last'.op = "loadToken" /\ nOps' = nOps + 1)
             => http' = Append(http, Exchange("page", userCredentials))
       /\ \A i \in 1..Len(http) :
             (/\ NothingReceived
              /\ SettledRequest(i)
              /\ http[i].outcome.kind = "ok"
              /\ contentWindow)
                => /\ posted' = Append(posted,
                         Wire(LoginCommand(Get(http[i].outcome.data, "token"))))
                   /\ LastMessage'.type = "sent"]_vars

\* the login Command went out first, the ack of EMBED_READY after it
C25_Witness ==
    /\ Len(posted) = 2
    /\ posted[1] = Wire(LoginCommand(JStr("T1")))
    /\ posted[2] = Wire(Ack)
    /\ last.op = "handleMessage"
    /\ last.event.data = EmbedReady

(***************************************************************************)
(* C26  iframeOrigin is write-once: it takes the origin of the first       *)
(* message event received, before any allow-list check and so from an      *)
(* untrusted sender too, and no later message changes it.                  *)
(***************************************************************************)
C26_OriginWriteOnce ==
    [][/\ iframeOrigin' # iframeOrigin => (HandledEvent /\ IsNull(iframeOrigin))
       /\ (HandledEvent /\ IsNull(iframeOrigin))
             => iframeOrigin' = [origin |-> last'.event.origin]
       /\ ~IsNull(iframeOrigin) => iframeOrigin' = iframeOrigin]_vars

\* the origin of an untrusted first sender stayed when a trusted one
\* followed
C26_Witness ==
    /\ iframeOrigin = [origin |-> OriginEvil]
    /\ last.op = "handleMessage"
    /\ last.event.origin = OriginProd
    /\ last.dispatched

(***************************************************************************)
(* C27  authenticated is monotone: false when the page starts, and once    *)
(* true never false again, whatever events (embed-login/logout/success     *)
(* included), logout() calls, token requests and token failures follow.    *)
(***************************************************************************)
C27_AuthenticatedMonotone ==
    /\ [](nOps = 0 => ~isAuthenticated)
    /\ [][isAuthenticated => isAuthenticated']_vars

\* authenticated, then logout() and the Widget's logout success: still
\* authenticated
C27_Witness ==
    /\ isAuthenticated
    /\ \E n \in 1..Len(posted) : posted[n] = Wire(LogoutCommand)
    /\ last.op = "handleMessage"
    /\ last.event.data = LogoutSuccess
    /\ last.dispatched

(***************************************************************************)
(* C28  Token requests that overlap are independent: while the iframe's    *)
(* window is available, each call of loadToken that settles yields one     *)
(* outcome of its own when its response arrives, a login Command with the  *)
(* token of that response or one 'Token error' entry, and touches no other *)
(* request; each request carries the credentials of the moment it was      *)
(* issued.                                                                 *)
(***************************************************************************)
\* this step is loadToken resuming because request i failed on the way
FailedRequest(i) ==
    /\ last'.op = "loadTokenNetworkError"
    /\ last'.req = i
    /\ http[i].phase = "sent"
    /\ http'[i].phase = "settled"

OneTokenError ==
    /\ posted' = posted
    /\ Len(messages') = Len(messages) + 1
    /\ LastMessage'.type = "error"
    /\ LastMessage'.text.label = "Token error"

C28_OverlappingRequestsIndependent ==
    [][/\ \A i \in 1..Len(http) :
             ((SettledRequest(i) \/ FailedRequest(i)) /\ contentWindow)
                => /\ IF SettledRequest(i) /\ http[i].outcome.kind = "ok"
                      THEN /\ posted' = Append(posted,
                                 Wire(LoginCommand(Get(http[i].outcome.data, "token"))))
                           /\ Len(messages') = Len(messages) + 1
                           /\ LastMessage'.type = "sent"
                      ELSE OneTokenError
                   /\ \A j \in 1..Len(http) : j # i => http'[j] = http[j]
       /\ (last'.op = "loadToken" /\ nOps' = nOps + 1)
             => http'[Len(http')].body = JText(Stringify(userCredentials))
       /\ \A i \in 1..Len(http) : http'[i].body = http[i].body]_vars

\* two requests were pending at once, issued under different credentials;
\* the second was answered first, and each gave its own login Command
C28_Witness ==
    /\ Len(http) = 2
    /\ http[1].phase = "settled" /\ http[2].phase = "settled"
    /\ http[1].body = JText(Stringify(CredsInitial))
    /\ http[2].body = JText(Stringify(CredsA))
    /\ Get(http[1].outcome.data, "token") = JStr("T1")
    /\ Get(http[2].outcome.data, "token") = JStr("T2")
    /\ posted = <<Wire(LoginCommand(JStr("T2"))), Wire(LoginCommand(JStr("T1")))>>

============================================================================
